---- MODULE Spec2Model ----
(***************************************************************************)
(* BulkLazyLoader (lib/sqlalchemy_bulk_lazy_loader.py): a relationship     *)
(* loader that, on the first access to an unloaded relationship of one     *)
(* owner, loads the relationship of every similar owner of the session     *)
(* with one "join_col IN (values)" query.                                  *)
(*                                                                         *)
(* The model holds one session and one relationship `self.key` of the      *)
(* parent class "User".  Owners are the objects of the session; target     *)
(* rows are numbered; a list object of the Python heap is a reference      *)
(* (a number) into `heap`, so that two owners holding the same list        *)
(* object is visible.                                                      *)
(***************************************************************************)
EXTENDS Integers, Sequences, FiniteSets

\* ---------------------------------------------------------------- bounds
NumOwners == 3      \* objects of the session
NumKeys == 3        \* distinct non-null values of the join column
NumRows == 2        \* distinct target rows of the database
MaxRows == 3        \* rows of the database (SpecRows)
MaxFewRows == 1     \* rows of the database (Spec)
MaxClauses == 2     \* clauses of a conjunction in a lazy criterion

Owners == 1..NumOwners
Keys == 1..NumKeys
RowIds == 1..NumRows

None == 0           \* Python's None: a null column value, a null to-one result
UNSET == -1         \* self.key is not in the instance dict
PendingRow == NumRows + 1   \* an object the caller's code appends to a loaded list
CallerRow == NumRows + 2    \* a row the caller fetched itself and sets with set_committed_value

Classes == {"User", "Admin", "Address"}   \* Admin is a subclass of User

\* ----------------------------------------------------------------- heap
\* List objects are named by who allocated them.
OwnerRef(o) == o                        \* the list `result[:]` creates for owner o
TempRef(o) == NumOwners + o             \* the `[]` default of .get(value, []) for owner o
BucketRef(k) == 2 * NumOwners + k       \* the list param_value_to_results[k]

VARIABLES
    uselist,        \* self.uselist: the relationship is to-many
    class,          \* class[o]: the class of object o
    key,            \* key[o]: the value of column self._ident on o (None: null)
    identity_map,   \* session.identity_map.values(), in iteration order
    new,            \* session.new
    dict_,          \* dict_[o]: instance_dict(o)[self.key]: UNSET, a list reference
                    \* (to-many), a row or None (to-one)
    heap,           \* contents of the list objects owners hold
    parent_property,\* self.parent_property: secondary (there is a secondary
                    \* table), lazy_clause (the criterion of _simple_lazy_clause),
                    \* class_ and key (the parent class and the relationship)
    loader,         \* the BulkLazyLoader of the relationship: state ("new":
                    \* not constructed, "ready", "error": __init__ raised),
                    \* criterion, join_col, ident, error
    lastOp          \* what the last operation did: the queries it executed, the
                    \* rows returned, the value returned, a raised exception, a warning

vars == <<uselist, class, key, identity_map, new, dict_, heap, parent_property,
          loader, lastOp>>

\* ------------------------------------------------------------- helpers
Range(s) == {s[i] : i \in 1..Len(s)}

RECURSIVE SeqsUpTo(_, _)
SeqsUpTo(S, n) ==
    IF n = 0 THEN {<<>>}
    ELSE LET shorter == SeqsUpTo(S, n - 1)
         IN shorter \cup {Append(s, x) : s \in {t \in shorter : Len(t) = n - 1}, x \in S}

\* The rows of the target table (through the secondary table, if any) at the
\* time of a query, in the relationship's order_by order: <<row, join column>>.
Tables == SeqsUpTo(RowIds \X Keys, MaxRows)
FewTables == SeqsUpTo(RowIds \X Keys, MaxFewRows)

\* op: the operation; trigger: the object it was called on; loaded: the loader
\* was called; similar: its similar_models; executed: every query the operation
\* sent; nested: those sent from within _set_results_on_models; failed: q.all()
\* raised; results: what q.all() returned; ret: the value returned to the
\* caller; raised: an exception reached the caller; warned: util.warn was called.
NoOp == [op |-> "init", trigger |-> 0, loaded |-> FALSE, similar |-> <<>>,
         executed |-> <<>>, nested |-> <<>>, failed |-> FALSE, results |-> <<>>,
         ret |-> UNSET, raised |-> FALSE, warned |-> FALSE]

Map1(s) == [i \in 1..Len(s) |-> s[i][1]]

\* ------------------------------------------------------ the criterion
\* The operands of a binary expression: a Column, a BindParameter that stands
\* for the parent's column `ident` (its value is not set), a BindParameter
\* with a literal value (as the 10 of "id > 10"), another expression.
ColumnNames == {"t.a_id", "t.b_id"}
Column(c) == [kind |-> "Column", name |-> c]
NoneObj == [kind |-> "None", type |-> "None"]     \* None, where an object is expected
LazyParam == [kind |-> "BindParameter", ident |-> Column("id"), value |-> None]
LiteralParam == [kind |-> "BindParameter", ident |-> NoneObj, value |-> 10]
OtherExpr == [kind |-> "Other"]
Operands == {Column(c) : c \in ColumnNames} \cup {LazyParam, LiteralParam, OtherExpr}

BinaryExpressions ==
    [type : {"BinaryExpression"}, operator : {"eq", "gt"},
     left : Operands, right : Operands]

\* A clause that is no BinaryExpression (a negation, a nested list).
OtherClause == [type |-> "Other"]

BooleanClauseLists ==
    {[type |-> "BooleanClauseList", operator |-> op, clauses |-> cs] :
        op \in {"and_", "or_"},
        cs \in SeqsUpTo(BinaryExpressions \cup {OtherClause}, MaxClauses) \ {<<>>}}

Criteria == BinaryExpressions \cup {OtherClause} \cup BooleanClauseLists

\* The relationships a mapper may configure with lazy="bulk".
Properties ==
    [secondary : BOOLEAN, lazy_clause : Criteria,
     class_ : {"User"}, key : {"addresses"}]

\* The bound parameters of a clause, left to right.
clause_params(clause) ==
    IF clause.type # "BinaryExpression" THEN <<>>
    ELSE SelectSeq(<<clause.left, clause.right>>,
                   LAMBDA x : x.kind = "BindParameter")

RECURSIVE clauses_params(_)
clauses_params(clauses) ==
    IF clauses = <<>> THEN <<>>
    ELSE clause_params(Head(clauses)) \o clauses_params(Tail(clauses))

\* param_keys of self._simple_lazy_clause: one (key, ident, value) per bound
\* parameter of the criterion.
param_keys_of(criterion) ==
    LET params == IF criterion.type = "BooleanClauseList"
                  THEN clauses_params(criterion.clauses)
                  ELSE clause_params(criterion)
    IN [i \in 1..Len(params) |-> <<"param", params[i].ident, params[i].value>>]

\* _get_join_col_from_criterion on a BinaryExpression: the Column that is
\* compared with a BindParameter.
binary_join_col(criterion) ==
    IF criterion.left.kind = "Column" /\ criterion.right.kind = "BindParameter"
    THEN criterion.left
    ELSE IF criterion.right.kind = "Column" /\ criterion.left.kind = "BindParameter"
    THEN criterion.right
    ELSE NoneObj

\* _get_join_col_from_criterion: in a list, the column of the first clause
\* that has one.
RECURSIVE get_join_col_from_criterion(_)
get_join_col_from_criterion(criterion) ==
    IF criterion.type = "BooleanClauseList"
    THEN LET cols == [i \in 1..Len(criterion.clauses) |->
                         get_join_col_from_criterion(criterion.clauses[i])]
             found == {i \in 1..Len(cols) : cols[i] # NoneObj}
         IN IF found = {} THEN NoneObj
            ELSE cols[CHOOSE i \in found : \A j \in found : i <= j]
    ELSE IF criterion.type = "BinaryExpression" THEN binary_join_col(criterion)
    ELSE NoneObj

\* _clause_has_no_parameters
clause_has_no_parameters(clause) ==
    clause.left.kind # "BindParameter" /\ clause.right.kind # "BindParameter"

\* _unsupported_relation: the UnsupportedRelationError raised, with the parts
\* of its message.
unsupported_relation(prop) ==
    [raised |-> TRUE,
     error_msg |-> <<"BulkLazyLoader ", prop.class_, ".", prop.key, ": ",
                     "Only simple relations on 1 primary key and without custom joins are supported">>]

Valid == [raised |-> FALSE, error_msg |-> <<>>]

\* Without the test of the number of parameters.
validate_relation_first_param(prop, join_col) ==
    LET criterion == prop.lazy_clause
        param_keys == param_keys_of(criterion)
    IN IF ~prop.secondary /\ criterion.type # "BinaryExpression"
       THEN unsupported_relation(prop)
       ELSE IF prop.secondary /\ criterion.type # "BooleanClauseList"
       THEN unsupported_relation(prop)
       ELSE IF prop.secondary /\ criterion.operator # "and_"
       THEN unsupported_relation(prop)
       ELSE IF prop.secondary
               /\ \E i \in 1..Len(criterion.clauses) :
                      criterion.clauses[i].type # "BinaryExpression"
       THEN unsupported_relation(prop)
       ELSE IF join_col = NoneObj
       THEN unsupported_relation(prop)
       ELSE IF param_keys[1][3] # None \/ param_keys[1][2] = NoneObj
       THEN unsupported_relation(prop)
       ELSE Valid

\* _validate_relation
validate_relation(prop, join_col) ==
    LET criterion == prop.lazy_clause
        param_keys == param_keys_of(criterion)
    IN IF ~prop.secondary /\ criterion.type # "BinaryExpression"
       THEN unsupported_relation(prop)
       ELSE IF prop.secondary /\ criterion.type # "BooleanClauseList"
       THEN unsupported_relation(prop)
       ELSE IF prop.secondary /\ criterion.operator # "and_"
       THEN unsupported_relation(prop)
       ELSE IF prop.secondary
               /\ \E i \in 1..Len(criterion.clauses) :
                      criterion.clauses[i].type # "BinaryExpression"
       THEN unsupported_relation(prop)
       ELSE IF join_col = NoneObj
       THEN unsupported_relation(prop)
       ELSE IF Len(param_keys) # 1
       THEN unsupported_relation(prop)
       ELSE IF param_keys[1][3] # None \/ param_keys[1][2] = NoneObj
       THEN unsupported_relation(prop)
       ELSE Valid

NewLoader == [state |-> "new", criterion |-> NoneObj, join_col |-> NoneObj,
              ident |-> NoneObj, error |-> <<>>]

\* BulkLazyLoader.__init__(parent, strategy_key): the loader, or the error
\* _validate_relation raised.
construct(prop) ==
    LET criterion == prop.lazy_clause
        join_col == get_join_col_from_criterion(criterion)
        valid == validate_relation(prop, join_col)
    IN IF valid.raised
       THEN [NewLoader EXCEPT !.state = "error", !.error = valid.error_msg]
       ELSE [state |-> "ready", criterion |-> criterion, join_col |-> join_col,
             ident |-> param_keys_of(criterion)[1][2], error |-> <<>>]

\* ---------------------------------------------------------- the loader
\* No class test: every object of the session is similar.
isinstance_any(cls, model_class) == TRUE

\* isinstance(possible_model, model_class): Admin is a subclass of User.
isinstance(cls, model_class) ==
    cls = model_class \/ (cls = "Admin" /\ model_class = "User")

\* Without the test for the relationship being in the instance dict.
get_similar_models(model) ==
    SelectSeq(identity_map,
              LAMBDA possible_model :
                  /\ isinstance(class[possible_model], class[model])
                  /\ possible_model \notin new)

\* The models of the session that need this relationship loaded.
get_similar_unpopulated_models(model) ==
    SelectSeq(identity_map,
              LAMBDA possible_model :
                  /\ isinstance(class[possible_model], class[model])
                  /\ possible_model \notin new
                  /\ dict_[possible_model] = UNSET)

\* The value of column self._ident on the model.  Both branches of the
\* source read the same column of the same object; the model keeps one value
\* per object (no unflushed change to the key column).
get_model_value(model) == key[model]

\* param_values: one entry per similar model, in enumeration order.
param_values_of(similar_models) ==
    [i \in 1..Len(similar_models) |-> get_model_value(similar_models[i])]

\* The keys of a dict filled in the order of `s`: first occurrences.
RECURSIVE dict_keys(_)
dict_keys(s) ==
    IF s = <<>> THEN <<>>
    ELSE LET rest == dict_keys(SubSeq(s, 1, Len(s) - 1))
         IN IF s[Len(s)] \in Range(rest) THEN rest ELSE Append(rest, s[Len(s)])

param_value_to_models_of(similar_models) ==
    [v \in Range(param_values_of(similar_models)) |->
        SelectSeq(similar_models, LAMBDA m : get_model_value(m) = v)]

\* No clause of the criterion is kept.
static_filters_none == <<>>

\* With a secondary table, the query keeps the clauses of the criterion that
\* have no parameter: q.filter(clause) for each.
static_filters ==
    IF parent_property.secondary
    THEN SelectSeq(loader.criterion.clauses, clause_has_no_parameters)
    ELSE <<>>

\* q.filter(self._join_col.in_(param_values)), after the filters of the
\* secondary table: the query sent.
bulk_query(param_values) == [filters |-> static_filters, in_ |-> param_values]

\* One query per similar model, "Model.field = value", as plain LazyLoader does.
queries_per_model(param_values) ==
    [i \in 1..Len(param_values) |-> [in_ |-> <<param_values[i]>>]]

\* The queries _emit_lazyload executes: q.all(), once.
executed_queries(param_values) == <<bulk_query(param_values)>>

\* The database's evaluation of a parameter-free clause on a row of a table
\* joined through a secondary table: row[3] is the set of the positions, in
\* the criterion, of the clauses the row satisfies.
satisfies(row, clause) ==
    \E i \in row[3] :
        i <= Len(loader.criterion.clauses) /\ loader.criterion.clauses[i] = clause

\* The database's answer: the rows whose join column is one of the values
\* (SQL's IN never matches a null) and that satisfy every filter, in the
\* table's order.
q_all(table, q) ==
    SelectSeq(table,
              LAMBDA row :
                  /\ row[2] # None /\ row[2] \in Range(q.in_)
                  /\ \A i \in 1..Len(q.filters) : satisfies(row, q.filters[i]))

\* Each row replaces the one before it under its join column value.
param_value_to_last_result(results) ==
    [v \in {results[i][2] : i \in 1..Len(results)} |->
        LET rows == Map1(SelectSeq(results, LAMBDA r : r[2] = v))
        IN <<rows[Len(rows)]>>]

\* param_value_to_results: the rows grouped by their join column value,
\* each group in the order of the results.
param_value_to_results_of(results) ==
    [v \in {results[i][2] : i \in 1..Len(results)} |->
        Map1(SelectSeq(results, LAMBDA r : r[2] = v))]

\* Several rows for a scalar relationship are an error, as Query.one() has it.
extract_one_or_raise(result) ==
    [value |-> IF Len(result) > 0 THEN result[1] ELSE None,
     warned |-> FALSE,
     raised |-> Len(result) > 1]

\* _extract_non_list_result: the first row or None; util.warn on several rows.
extract_non_list_result(result) ==
    [value |-> IF Len(result) > 0 THEN result[1] ELSE None,
     warned |-> Len(result) > 1,
     raised |-> FALSE]

\* No copy: the list of the bucket itself.
list_no_copy(src, fresh) == src

\* result[:]: a new list object with the same items.
list_copy(src, fresh) == fresh

\* A plain attribute set (setattr): replacing a value that is not loaded
\* loads the old value first, which calls the loader again.
set_attribute(d, model, value) ==
    [dict_ |-> [d EXCEPT ![model] = value],
     nested |-> IF d[model] = UNSET
                THEN <<[in_ |-> <<get_model_value(model)>>]>> ELSE <<>>]

\* attributes.set_committed_value(model, self.key, result): writes the
\* instance dict, fires no attribute event and calls no loader, so no query
\* is issued from within it.
set_committed_value(d, model, value) ==
    [dict_ |-> [d EXCEPT ![model] = value], nested |-> <<>>]

\* current_model_result is set for every model: the last one's value is returned.
set_result_last_returned(st, value, model, p2r, current_model) ==
    LET items == IF value \in DOMAIN p2r THEN p2r[value] ELSE <<>>
        one == extract_non_list_result(items)
        result == IF uselist THEN OwnerRef(model) ELSE one.value
    IN [st EXCEPT !.dict_ = set_committed_value(st.dict_, model, result).dict_,
                  !.heap = IF uselist
                           THEN [st.heap EXCEPT ![OwnerRef(model)] = items]
                           ELSE st.heap,
                  !.current_model_result = result,
                  !.warned = st.warned \/ (~uselist /\ one.warned)]

\* Only the model the load was triggered on is written, as plain LazyLoader does.
set_result_current_only(st, value, model, p2r, current_model) ==
    LET items == IF value \in DOMAIN p2r THEN p2r[value] ELSE <<>>
        one == extract_non_list_result(items)
        result == IF uselist THEN OwnerRef(model) ELSE one.value
    IN IF model # current_model THEN st
       ELSE [st EXCEPT !.dict_ = set_committed_value(st.dict_, model, result).dict_,
                       !.heap = IF uselist
                                THEN [st.heap EXCEPT ![OwnerRef(model)] = items]
                                ELSE st.heap,
                       !.current_model_result = result,
                       !.warned = ~uselist /\ one.warned]

\* One iteration of the inner loop of _set_results_on_models.
\* st = [dict_, heap, current_model_result, warned, raised, nested]; an
\* exception (raised) ends the loop where it is.
set_result(st, value, model, p2r, current_model) ==
    LET found == value \in DOMAIN p2r
        src == IF found THEN BucketRef(value) ELSE TempRef(model)
        items == IF found THEN p2r[value] ELSE <<>>
        ref == list_copy(src, OwnerRef(model))
        h1 == [st.heap EXCEPT ![src] = items, ![ref] = items]
        one == extract_non_list_result(items)
        result == IF uselist THEN ref ELSE one.value
        written == set_committed_value(st.dict_, model, result)
    IN IF ~uselist /\ one.raised
       THEN [st EXCEPT !.raised = TRUE]
       ELSE [dict_ |-> written.dict_,
             nested |-> st.nested \o written.nested,
             heap |-> IF uselist THEN h1 ELSE st.heap,
             current_model_result |->
                 IF model = current_model THEN result ELSE st.current_model_result,
             warned |-> st.warned \/ (~uselist /\ one.warned),
             raised |-> FALSE]

\* param_value_to_models.items(), flattened: <<value, model>> in loop order.
RECURSIVE items_of(_, _)
items_of(ks, p2m) ==
    IF ks = <<>> THEN <<>>
    ELSE [i \in 1..Len(p2m[Head(ks)]) |-> <<Head(ks), p2m[Head(ks)][i]>>]
         \o items_of(Tail(ks), p2m)

RECURSIVE set_results_loop(_, _, _, _)
set_results_loop(items, p2r, current_model, st) ==
    IF items = <<>> \/ st.raised THEN st
    ELSE set_results_loop(Tail(items), p2r, current_model,
             set_result(st, Head(items)[1], Head(items)[2], p2r, current_model))

\* Lists no owner holds are garbage.
Collect(d, h) ==
    [r \in DOMAIN h |-> IF uselist /\ r \in {d[o] : o \in Owners} THEN h[r] ELSE <<>>]

set_results_on_models(p2r, p2m, ks, current_model) ==
    set_results_loop(items_of(ks, p2m), p2r, current_model,
        [dict_ |-> dict_, heap |-> heap,
         current_model_result |-> None, warned |-> FALSE, raised |-> FALSE,
         nested |-> <<>>])

\* --------------------------------------------------------------- state
Refs == 1..(2 * NumOwners + NumKeys)

Persistent == Range(identity_map)

\* The objects the relationship is defined on: instances of the parent class.
IsOwner(o) == class[o] \in {"User", "Admin"}

RECURSIVE SortedSeq(_)
SortedSeq(S) ==
    IF S = {} THEN <<>>
    ELSE LET m == CHOOSE x \in S : \A y \in S : x <= y
         IN <<m>> \o SortedSeq(S \ {m})

\* A session whose objects were just loaded or added: no relationship is in
\* any instance dict.
InitSession ==
    /\ uselist \in BOOLEAN
    /\ dict_ = [o \in Owners |-> UNSET]
    /\ heap = [r \in Refs |-> <<>>]
    /\ lastOp = NoOp

\* A relationship without a secondary table whose criterion is
\* ":param = t.a_id".
SimpleProperty ==
    [secondary |-> FALSE,
     lazy_clause |-> [type |-> "BinaryExpression", operator |-> "eq",
                      left |-> LazyParam, right |-> Column("t.a_id")],
     class_ |-> "User", key |-> "addresses"]

\* The mappers are configured: the loader of the relationship is constructed.
InitLoader ==
    /\ parent_property = SimpleProperty
    /\ loader = construct(SimpleProperty)

\* The join is on the owner's primary key (one-to-many, many-to-many):
\* object o has key o.
PrimaryKeyJoin == key = [o \in Owners |-> o]

\* The objects of the session: any classes, persistent or new.  The join is on
\* the owner's primary key, or on a foreign key (many-to-one) that has the
\* same value on every object.  Objects of another class are never looked at
\* beyond their class: they are persistent.
Init ==
    /\ InitSession
    /\ class \in [Owners -> Classes]
    /\ key \in {[o \in Owners |-> o], [o \in Owners |-> 1]}
    /\ \E P \in SUBSET Owners :
          /\ identity_map = SortedSeq(P)
          /\ new = Owners \ P
    /\ \A o \in Owners : ~IsOwner(o) => o \notin new
    /\ InitLoader

\* Persistent owners of the parent class; the join is on a foreign key of the
\* owner (many-to-one), which owners may share and which may be null.
InitRows ==
    /\ InitSession
    /\ class = [o \in Owners |-> "User"]
    /\ key \in [Owners -> Keys \cup {None}]
    /\ identity_map = SortedSeq(Owners)
    /\ new = {}
    /\ InitLoader

\* What q.all() may return for the query a load triggered on o sends, over
\* the contents the database may have.
QueryResults(o, tables) ==
    {q_all(table, bulk_query(param_values_of(get_similar_unpopulated_models(o)))) :
        table \in tables}

\* q.all() raises and the exception is swallowed: the query counts as
\* having returned no row.
query_outcome_swallowed(results, fails) ==
    [raised |-> FALSE, rows |-> IF fails THEN <<>> ELSE results]

\* results = q.all(): the rows, or the exception the query raised.
query_outcome(results, fails) ==
    [raised |-> fails, rows |-> IF fails THEN <<>> ELSE results]

\* _emit_lazyload(session, state, ident_key, passive) with state.obj() = o;
\* `results`: what q.all() returns, `fails`: q.all() raises.
emit_lazyload(o, results, fails) ==
    LET current_model == o
        similar_models == get_similar_unpopulated_models(current_model)
        param_value_to_models == param_value_to_models_of(similar_models)
        param_values == param_values_of(similar_models)
        executed == executed_queries(param_values)
        outcome == query_outcome(results, fails)
        param_value_to_results == param_value_to_results_of(outcome.rows)
        st == set_results_on_models(param_value_to_results, param_value_to_models,
                                    dict_keys(param_values), current_model)
        op == [NoOp EXCEPT !.op = "access", !.trigger = o, !.loaded = TRUE,
                           !.similar = similar_models, !.failed = fails]
    IN IF outcome.raised
       THEN /\ lastOp' = [op EXCEPT !.executed = executed, !.raised = TRUE]
            /\ UNCHANGED <<dict_, heap>>
       ELSE /\ dict_' = st.dict_
            /\ heap' = Collect(st.dict_, st.heap)
            /\ lastOp' = [op EXCEPT !.executed = executed \o st.nested,
                                    !.nested = st.nested,
                                    !.results = outcome.rows,
                                    !.ret = IF st.raised THEN UNSET
                                            ELSE st.current_model_result,
                                    !.raised = st.raised,
                                    !.warned = st.warned]

\* Reading owner.<key> of a persistent owner whose relationship is not in the
\* instance dict: the loader is called.
Load(o, tables) ==
    /\ loader.state = "ready"
    /\ o \in Persistent /\ o \notin new /\ IsOwner(o)
    /\ dict_[o] = UNSET
    /\ \E results \in QueryResults(o, tables), fails \in BOOLEAN : emit_lazyload(o, results, fails)
    /\ UNCHANGED <<uselist, class, key, identity_map, new, parent_property, loader>>

\* Reading owner.<key> when it is in the instance dict: the stored value is
\* returned and the loader is not called.
Read(o) ==
    /\ o \in Persistent /\ IsOwner(o)
    /\ dict_[o] # UNSET
    /\ lastOp' = [NoOp EXCEPT !.op = "access", !.trigger = o, !.ret = dict_[o]]
    /\ UNCHANGED <<uselist, class, key, identity_map, new, dict_, heap,
                   parent_property, loader>>

\* The caller sets the relationship itself with set_committed_value, on an
\* owner that does not have it.
PreLoad(o) ==
    /\ IsOwner(o) /\ dict_[o] = UNSET
    /\ IF uselist
       THEN /\ dict_' = set_committed_value(dict_, o, OwnerRef(o)).dict_
            /\ heap' = [heap EXCEPT ![OwnerRef(o)] = <<CallerRow>>]
       ELSE /\ dict_' = set_committed_value(dict_, o, CallerRow).dict_
            /\ heap' = heap
    /\ lastOp' = [NoOp EXCEPT !.op = "preload"]
    /\ UNCHANGED <<uselist, class, key, identity_map, new, parent_property, loader>>

\* session.flush(): the new objects become persistent.
Flush ==
    /\ new # {}
    /\ identity_map' = identity_map \o SortedSeq(new)
    /\ new' = {}
    /\ lastOp' = [NoOp EXCEPT !.op = "flush"]
    /\ UNCHANGED <<uselist, class, key, dict_, heap, parent_property, loader>>

\* Reading row.<backref> of a row the load just made returned, where the join
\* is on the owner's primary key and the row carries the foreign key (it
\* reports one join column value: no secondary table): the reverse property
\* is MANYTOONE and loads the owner from get(), by the row's join column
\* value; the identity map answers, and a query is sent only when the owner is
\* not in it.
ReadBackref(i) ==
    /\ PrimaryKeyJoin
    /\ lastOp.op = "access" /\ lastOp.loaded /\ ~lastOp.raised
    /\ i \in 1..Len(lastOp.results)
    /\ \A j \in 1..Len(lastOp.results) :
           lastOp.results[j][1] = lastOp.results[i][1] =>
               lastOp.results[j][2] = lastOp.results[i][2]
    /\ LET row == lastOp.results[i][1]
           v == lastOp.results[i][2]
           found == {p \in Persistent : IsOwner(p) /\ p = v}
       IN lastOp' = [NoOp EXCEPT
                        !.op = "backref", !.trigger = row,
                        !.ret = IF found # {} THEN CHOOSE p \in found : TRUE ELSE None,
                        !.executed = IF found # {} THEN <<>> ELSE <<[in_ |-> <<v>>]>>]
    /\ UNCHANGED <<uselist, class, key, identity_map, new, dict_, heap,
                   parent_property, loader>>

\* The caller's code appends an object to the list an owner holds.
Mutate(o) ==
    /\ uselist /\ IsOwner(o) /\ dict_[o] # UNSET
    /\ PendingRow \notin Range(heap[dict_[o]])
    /\ heap' = [heap EXCEPT ![dict_[o]] = Append(@, PendingRow)]
    /\ lastOp' = [NoOp EXCEPT !.op = "mutate"]
    /\ UNCHANGED <<uselist, class, key, identity_map, new, dict_, parent_property,
                   loader>>

Next ==
    \/ \E o \in Owners : Load(o, FewTables)
    \/ \E o \in Owners : Read(o)
    \/ \E o \in Owners : PreLoad(o)
    \/ Flush
    \/ \E i \in 1..MaxFewRows : ReadBackref(i)

Spec == Init /\ [][Next]_vars

NextRows ==
    \/ \E o \in Owners : Load(o, Tables)
    \/ \E o \in Owners : Mutate(o)

SpecRows == InitRows /\ [][NextRows]_vars

\* The tables of a relationship joined through a secondary table:
\* <<row, join column, positions of the clauses the row satisfies>>.
ClauseTables == SeqsUpTo(RowIds \X Keys \X (SUBSET (1..MaxClauses)), MaxFewRows)

\* The mappers are not configured yet: any relationship with lazy="bulk", and
\* a session of persistent owners joined on their primary key.
InitConfig ==
    /\ InitSession
    /\ class = [o \in Owners |-> "User"]
    /\ key = [o \in Owners |-> o]
    /\ identity_map = SortedSeq(Owners)
    /\ new = {}
    /\ parent_property \in Properties
    /\ loader = NewLoader

\* configure_mappers(): the strategy of the relationship is constructed,
\* BulkLazyLoader.__init__; an UnsupportedRelationError reaches the caller.
Configure ==
    /\ loader.state = "new"
    /\ loader' = construct(parent_property)
    /\ lastOp' = [NoOp EXCEPT !.op = "configure",
                              !.raised = (loader'.state = "error")]
    /\ UNCHANGED <<uselist, class, key, identity_map, new, dict_, heap,
                   parent_property>>

NextConfig ==
    \/ Configure
    \/ \E o \in Owners : Load(o, ClauseTables)

SpecConfig == InitConfig /\ [][NextConfig]_vars

\* ------------------------------------------------------------ properties
\* The values of the IN-predicate of the query a load sent.
InValuesOf(op) == op.executed[1].in_

\* The step just taken called the loader (_emit_lazyload).
LoaderCalled == lastOp'.op = "access" /\ lastOp'.loaded

\* c is of type t.
OfType(c, t) == c = t \/ (c = "Admin" /\ t = "User")

\* Before the step: o is in the identity map, of the trigger's type, not new
\* and without the relationship.
Unresolved(o, trigger) ==
    /\ \E i \in 1..Len(identity_map) : identity_map[i] = o
    /\ OfType(class[o], class[trigger])
    /\ o \notin new
    /\ dict_[o] = UNSET

\* The caller's own value is (still) what o holds.
HoldsCallerValue(o) ==
    IF uselist THEN dict_[o] # UNSET /\ heap[dict_[o]] = <<CallerRow>>
    ELSE dict_[o] = CallerRow

\* C1: a triggering access executes exactly one query, whatever the number of
\* owners that need the relationship, one included.
C1_OneQueryPerTrigger ==
    (lastOp.op = "access" /\ lastOp.loaded) => Len(lastOp.executed) = 1

\* The trigger was the only owner that needed the relationship.
C1_Witness ==
    /\ lastOp.op = "access" /\ lastOp.loaded /\ ~lastOp.raised
    /\ Len(lastOp.similar) = 1
    /\ Len(lastOp.executed) = 1

\* C4: a load writes neither an owner that had the relationship before the
\* triggering access nor a new owner: their attribute is unchanged.
C4_ResolvedAndNewUntouched ==
    [][LoaderCalled =>
         \A o \in Owners : (dict_[o] # UNSET \/ o \in new) =>
             /\ dict_'[o] = dict_[o]
             /\ (uselist /\ dict_[o] # UNSET => heap'[dict_[o]] = heap[dict_[o]])]_vars

\* A load completed in a session with an owner the caller had set and a new owner.
C4_Witness ==
    /\ lastOp.op = "access" /\ lastOp.loaded /\ ~lastOp.raised
    /\ \E o \in Owners : IsOwner(o) /\ o \notin new /\ HoldsCallerValue(o)
    /\ \E o \in new : IsOwner(o) /\ dict_[o] = UNSET

\* The join keys the first query of the step sent.
KeysSent == Range(lastOp'.executed[1].in_)

\* C5 as the specification words it: the keys of the IN-predicate are exactly the join keys of
\* the owners that are in the identity map, of the trigger's type, not new and
\* without the relationship when the access happens; the key of an owner that
\* has the relationship is not sent.
C5_KeysSentNoResolvedKey ==
    [][LoaderCalled =>
         /\ Len(lastOp'.executed) >= 1
         /\ KeysSent = {key[o] : o \in {p \in Owners : Unresolved(p, lastOp'.trigger)}}
         /\ \A o \in Owners : dict_[o] # UNSET => key[o] \notin KeysSent]_vars

\* C5: the keys of the IN-predicate are exactly the join keys of the
\* owners that are in the identity map, of the trigger's type, not new and
\* without the relationship when the access happens; the key of an owner that
\* has the relationship is sent only when one of those owners has the same key.
C5_KeysSent ==
    [][LoaderCalled =>
         /\ Len(lastOp'.executed) >= 1
         /\ KeysSent = {key[o] : o \in {p \in Owners : Unresolved(p, lastOp'.trigger)}}
         /\ \A o \in Owners :
                (dict_[o] # UNSET /\ key[o] \in KeysSent) =>
                    \E p \in Owners : Unresolved(p, lastOp'.trigger) /\ key[p] = key[o]]_vars

\* A load in a session with an owner that has the relationship, an owner
\* without it and an object of another class; the two owners have the same
\* key, which is the one key sent.
C5_Witness ==
    /\ lastOp.op = "access" /\ lastOp.loaded /\ ~lastOp.raised
    /\ \E o \in Owners \ {lastOp.trigger} :
           /\ IsOwner(o) /\ o \notin new /\ HoldsCallerValue(o)
           /\ key[o] = key[lastOp.trigger]
    /\ \E o \in Owners : class[o] = "Address"
    /\ Len(lastOp.executed) = 1 /\ InValuesOf(lastOp) = <<key[lastOp.trigger]>>

\* C6: a load that completes leaves the relationship in the instance dict of
\* the trigger and of every sibling; it stays there, and an access to an owner
\* that has it calls no loader and executes no query.
C6_NoQueryOnceResolved ==
    [][/\ (LoaderCalled /\ ~lastOp'.raised) =>
              \A o \in Owners :
                  (o = lastOp'.trigger \/ Unresolved(o, lastOp'.trigger)) =>
                      dict_'[o] # UNSET
       /\ \A o \in Owners : dict_[o] # UNSET =>
              /\ dict_'[o] # UNSET
              /\ (lastOp'.op = "access" /\ lastOp'.trigger = o) =>
                     (~lastOp'.loaded /\ lastOp'.executed = <<>>)]_vars

\* An owner the loader resolved as a sibling is read again, without a query.
C6_Witness ==
    /\ lastOp.op = "access" /\ ~lastOp.loaded /\ lastOp.executed = <<>>
    /\ ~HoldsCallerValue(lastOp.trigger)
    /\ \E o \in Owners \ {lastOp.trigger} :
           IsOwner(o) /\ dict_[o] # UNSET /\ ~HoldsCallerValue(o)

\* C10: when the query fails, the exception reaches the caller, the query was
\* sent once, and no instance dict is written: the trigger and the siblings
\* are still without the relationship, and the next access to the trigger
\* calls the loader and sends the query again.
C10_FailedQueryWritesNothing ==
    [][/\ (LoaderCalled /\ lastOp'.failed) =>
              /\ lastOp'.raised
              /\ Len(lastOp'.executed) = 1
              /\ dict_' = dict_ /\ heap' = heap
              /\ \A o \in Owners : Unresolved(o, lastOp'.trigger) => dict_'[o] = UNSET
       /\ (lastOp.op = "access" /\ lastOp.failed
             /\ lastOp'.op = "access" /\ lastOp'.trigger = lastOp.trigger) =>
              (lastOp'.loaded /\ Len(lastOp'.executed) = 1)]_vars

\* The query of a load with several siblings failed.
C10_Witness ==
    /\ lastOp.op = "access" /\ lastOp.loaded /\ lastOp.failed /\ lastOp.raised
    /\ Len(lastOp.similar) >= 2
    /\ \A i \in 1..Len(lastOp.similar) : dict_[lastOp.similar[i]] = UNSET

\* The rows of `results` that report join column value k, in order.
RECURSIVE RowsWithKey(_, _)
RowsWithKey(results, k) ==
    IF results = <<>> THEN <<>>
    ELSE (IF Head(results)[2] = k THEN <<Head(results)[1]>> ELSE <<>>)
         \o RowsWithKey(Tail(results), k)

\* The list owner o holds (to-many).
ListOf(o) == heap[dict_[o]]

\* C2: to-many: after a load every sibling holds exactly the rows that report
\* its join key, in the order the query returned them; the empty list when no
\* row reports its key.
C2_ToManyRowsByKeyInOrder ==
    [][(LoaderCalled /\ ~lastOp'.raised /\ uselist) =>
         \A o \in Owners : Unresolved(o, lastOp'.trigger) =>
             /\ dict_'[o] # UNSET
             /\ heap'[dict_'[o]] = RowsWithKey(lastOp'.results, key[o])]_vars

\* A load gave one owner two rows that another key's row separates in the
\* results, and another owner the empty list.
C2_Witness ==
    /\ uselist /\ lastOp.op = "access" /\ lastOp.loaded /\ ~lastOp.raised
    /\ Len(lastOp.results) = 3
    /\ lastOp.results[1][2] = lastOp.results[3][2]
    /\ lastOp.results[1][2] # lastOp.results[2][2]
    /\ lastOp.results[1][1] > lastOp.results[3][1]
    /\ \E o \in Owners :
           key[o] = lastOp.results[1][2]
           /\ ListOf(o) = <<lastOp.results[1][1], lastOp.results[3][1]>>
    /\ \E o \in Owners : dict_[o] # UNSET /\ ListOf(o) = <<>>

\* C3: to-one: a sibling gets None when no row reports its key, the row when
\* one does, the first in query order when several do; then a warning is
\* emitted, no exception is raised and every sibling is written.
C3_ToOneFirstRowOrNone ==
    [][(LoaderCalled /\ ~lastOp'.failed /\ ~uselist) =>
         /\ ~lastOp'.raised
         /\ \A o \in Owners : Unresolved(o, lastOp'.trigger) =>
                LET rows == RowsWithKey(lastOp'.results, key[o])
                IN /\ dict_'[o] = IF rows = <<>> THEN None ELSE rows[1]
                   /\ Len(rows) > 1 => lastOp'.warned]_vars

\* One sibling had several rows (a warning), one had one row, one had none.
C3_Witness ==
    /\ ~uselist /\ lastOp.op = "access" /\ lastOp.loaded /\ ~lastOp.raised
    /\ lastOp.warned
    /\ \E a, b, c \in Owners :
           /\ Len(RowsWithKey(lastOp.results, key[a])) = 2
           /\ dict_[a] = RowsWithKey(lastOp.results, key[a])[1]
           /\ dict_[a] # RowsWithKey(lastOp.results, key[a])[2]
           /\ Len(RowsWithKey(lastOp.results, key[b])) = 1
           /\ dict_[b] = RowsWithKey(lastOp.results, key[b])[1]
           /\ RowsWithKey(lastOp.results, key[c]) = <<>>
           /\ dict_[c] = None

\* C7: no two owners hold the same list object, owners with the same join
\* key included; a mutation of one owner's list changes no other owner's list.
C7_NoSharedList ==
    [][/\ uselist' =>
              \A a, b \in Owners :
                  (a # b /\ dict_'[a] # UNSET /\ dict_'[b] # UNSET) =>
                      dict_'[a] # dict_'[b]
       /\ lastOp'.op = "mutate" =>
              Cardinality({o \in Owners :
                  dict_[o] # UNSET /\ heap'[dict_'[o]] # heap[dict_[o]]}) = 1]_vars

\* Two owners with the same key were given equal lists; one was mutated, the
\* other is as it was.
C7_Witness ==
    /\ uselist /\ lastOp.op = "mutate"
    /\ \E a, b \in Owners :
           /\ a # b /\ key[a] = key[b] /\ key[a] # None
           /\ dict_[a] # UNSET /\ dict_[b] # UNSET
           /\ Len(ListOf(b)) >= 1
           /\ ListOf(a) = Append(ListOf(b), PendingRow)

\* C9: the value a load returns is the one computed for the trigger and
\* written into the trigger's instance dict, and no other owner's list.
C9_ReturnsTriggerValue ==
    (lastOp.op = "access" /\ lastOp.loaded /\ ~lastOp.raised) =>
        /\ lastOp.ret # UNSET
        /\ lastOp.ret = dict_[lastOp.trigger]
        /\ LET rows == RowsWithKey(lastOp.results, key[lastOp.trigger])
           IN IF uselist
              THEN /\ heap[lastOp.ret] = rows
                   /\ \A o \in Owners \ {lastOp.trigger} : dict_[o] # lastOp.ret
              ELSE lastOp.ret = IF rows = <<>> THEN None ELSE rows[1]

\* The trigger was neither first nor last of three siblings; one sibling has
\* its key, the other has not, and their values differ from the trigger's.
C9_Witness ==
    /\ lastOp.op = "access" /\ lastOp.loaded /\ ~lastOp.raised
    /\ Len(lastOp.similar) = 3 /\ lastOp.similar[2] = lastOp.trigger
    /\ key[lastOp.similar[3]] = key[lastOp.trigger]
    /\ key[lastOp.similar[1]] # key[lastOp.trigger]
    /\ RowsWithKey(lastOp.results, key[lastOp.similar[1]]) # <<>>
    /\ RowsWithKey(lastOp.results, key[lastOp.trigger]) # <<>>
    /\ RowsWithKey(lastOp.results, key[lastOp.similar[1]])[1]
           # RowsWithKey(lastOp.results, key[lastOp.trigger])[1]
    /\ lastOp.ret = dict_[lastOp.trigger]

\* Owner o holds the row as (part of) its relationship.
Holds(o, row) ==
    /\ dict_[o] # UNSET
    /\ IF uselist THEN \E i \in 1..Len(ListOf(o)) : ListOf(o)[i] = row
       ELSE dict_[o] = row

\* C8: the writes of _set_results_on_models call no loader: a load sends no
\* query from within the distribution; and reading the back-reference of a row
\* the load assigned returns the owner it was assigned to, without a query.
C8_WritesDoNotReenter ==
    [][/\ LoaderCalled => lastOp'.nested = <<>>
       /\ lastOp'.op = "backref" =>
              /\ lastOp'.executed = <<>>
              /\ \A o \in Range(lastOp.similar) :
                     Holds(o, lastOp'.trigger) => lastOp'.ret = o]_vars

\* The back-reference of a row assigned to a sibling that was not the trigger
\* was read.
C8_Witness ==
    /\ lastOp.op = "backref" /\ lastOp.executed = <<>>
    /\ lastOp.ret \in Owners
    /\ Holds(lastOp.ret, lastOp.trigger)
    /\ \E o \in Owners \ {lastOp.ret} :
           IsOwner(o) /\ dict_[o] # UNSET /\ ~HoldsCallerValue(o)

\* A load completed (the state after it).
LoadDone == lastOp.op = "access" /\ lastOp.loaded /\ ~lastOp.raised

\* The values of the IN-predicate of the query the load sent.
InValues == InValuesOf(lastOp)

\* C14: to-one: an owner whose join key is null is resolved to None, and the
\* null is not among the values of the IN-predicate.
C14_NullKeyNotSent ==
    (LoadDone /\ ~uselist) =>
        \A o \in Range(lastOp.similar) :
            key[o] = None => (dict_[o] = None /\ None \notin Range(InValues))

\* C15: the values of the IN-predicate are a set: a value several siblings
\* have is there once; and each sibling is under exactly one key of
\* param_value_to_models.
C15_KeysAreASet ==
    (lastOp.op = "access" /\ lastOp.loaded) =>
        /\ \A i, j \in 1..Len(InValues) : i # j => InValues[i] # InValues[j]
        /\ LET p2m == param_value_to_models_of(lastOp.similar)
           IN \A m \in Range(lastOp.similar) :
                  Cardinality({v \in DOMAIN p2m : m \in Range(p2m[v])}) = 1

\* C16: every object of the identity map that is of the relationship's parent
\* class, not new and without the relationship is a sibling of the load,
\* whatever the class of the trigger, and is resolved by its one query; an
\* object of another class is never a sibling.
C16_SiblingsOfOwnerType ==
    [][(LoaderCalled /\ ~lastOp'.raised) =>
         /\ Len(lastOp'.executed) = 1
         /\ \A o \in Owners :
                (o \in Persistent /\ IsOwner(o) /\ o \notin new /\ dict_[o] = UNSET) =>
                    (o \in Range(lastOp'.similar) /\ dict_'[o] # UNSET)
         /\ \A o \in Range(lastOp'.similar) : IsOwner(o)]_vars

\* The message of the claim, for the parent class and the relationship of the
\* model.
ExpectedMessage ==
    <<"BulkLazyLoader ", "User", ".", "addresses", ": ",
      "Only simple relations on 1 primary key and without custom joins are supported">>

\* The clause is "column = :param", either way round, the parameter being the
\* one whose value is not set.
IsKeyEquality(c) ==
    /\ c.type = "BinaryExpression" /\ c.operator = "eq"
    /\ \/ (c.left.kind = "Column" /\ c.right = LazyParam)
       \/ (c.right.kind = "Column" /\ c.left = LazyParam)

\* The clause has a bound parameter.
HasParameter(c) ==
    c.type = "BinaryExpression"
    /\ (c.left.kind = "BindParameter" \/ c.right.kind = "BindParameter")

\* The join uses a two-column key: a conjunction with two key equalities.
Composite(criterion) ==
    /\ criterion.type = "BooleanClauseList" /\ criterion.operator = "and_"
    /\ Cardinality({i \in 1..Len(criterion.clauses) :
                       IsKeyEquality(criterion.clauses[i])}) = 2

\* C11: the construction of the loader of a relationship whose join uses a
\* two-column key raises UnsupportedRelationError with the message that names
\* the parent class and the relationship; no query is sent before the loader
\* is constructed, nor once its construction has raised.
C11_CompositeKeyRejected ==
    [][/\ (loader.state = "new" /\ loader'.state # "new"
             /\ Composite(parent_property.lazy_clause)) =>
              /\ loader'.state = "error" /\ lastOp'.raised
              /\ loader'.error = ExpectedMessage
       /\ loader.state \in {"new", "error"} =>
              (lastOp'.executed = <<>> /\ ~lastOp'.loaded)]_vars

\* The mappers were configured with a relationship without a secondary table
\* whose join is on two columns: the construction raised.
C11_Witness ==
    /\ lastOp.op = "configure" /\ lastOp.raised
    /\ ~parent_property.secondary
    /\ Composite(parent_property.lazy_clause)
    /\ loader.state = "error" /\ loader.error = ExpectedMessage

\* C12: with a secondary table the loader is constructed only for a
\* conjunction of binary equalities of which exactly one is the key equality
\* and the others have no parameter; a criterion with a further parameterized
\* condition is rejected with UnsupportedRelationError.
C12_SecondaryShape ==
    (loader.state \in {"ready", "error"} /\ parent_property.secondary) =>
        LET criterion == parent_property.lazy_clause
        IN /\ loader.state = "ready" =>
                  /\ criterion.type = "BooleanClauseList"
                  /\ criterion.operator = "and_"
                  /\ \A i \in 1..Len(criterion.clauses) :
                         /\ criterion.clauses[i].type = "BinaryExpression"
                         /\ criterion.clauses[i].operator = "eq"
                  /\ Cardinality({i \in 1..Len(criterion.clauses) :
                                     IsKeyEquality(criterion.clauses[i])}) = 1
                  /\ \A i \in 1..Len(criterion.clauses) :
                         IsKeyEquality(criterion.clauses[i])
                         \/ ~HasParameter(criterion.clauses[i])
           /\ (criterion.type = "BooleanClauseList"
                 /\ \E i, j \in 1..Len(criterion.clauses) :
                        i # j /\ HasParameter(criterion.clauses[i])
                        /\ HasParameter(criterion.clauses[j])) =>
                  (loader.state = "error" /\ loader.error = ExpectedMessage)

\* C13: without a secondary table the loader is constructed if and only if
\* the criterion is one equality of one column and the one parameter whose
\* value is not set; every other criterion is rejected with
\* UnsupportedRelationError.
C13_SimpleShape ==
    (loader.state \in {"ready", "error"} /\ ~parent_property.secondary) =>
        /\ loader.state = "ready" <=> IsKeyEquality(parent_property.lazy_clause)
        /\ loader.state = "error" => loader.error = ExpectedMessage

\* The clauses without a parameter, in the order of the criterion.
RECURSIVE StaticClauses(_)
StaticClauses(clauses) ==
    IF clauses = <<>> THEN <<>>
    ELSE (IF HasParameter(Head(clauses)) THEN <<>> ELSE <<Head(clauses)>>)
         \o StaticClauses(Tail(clauses))

\* C17: with a secondary table, the query of a load has every parameter-free
\* clause of the criterion, unchanged and in order, and the IN filter on the
\* keys in place of the one clause with the parameter; every row the query
\* returns satisfies every parameter-free clause.
C17_StaticClausesKept ==
    (lastOp.op = "access" /\ lastOp.loaded /\ parent_property.secondary) =>
        LET clauses == parent_property.lazy_clause.clauses
            q == lastOp.executed[1]
        IN /\ q.filters = StaticClauses(clauses)
           /\ Len(q.filters) = Len(clauses) - 1
           /\ Range(q.in_) = {key[o] : o \in Range(lastOp.similar)}
           /\ \A r \in 1..Len(lastOp.results) :
                  \A i \in 1..Len(clauses) :
                      ~HasParameter(clauses[i]) => i \in lastOp.results[r][3]

\* A load through a secondary table whose criterion has a parameter-free
\* clause returned a row.
C17_Witness ==
    /\ LoadDone /\ parent_property.secondary
    /\ Len(lastOp.executed[1].filters) = 1
    /\ lastOp.results # <<>>

====
